---- MODULE Spec2Model ----
(***************************************************************************)
(* Sentiment analyzer: the FastAPI service (backend/main.py), the          *)
(* Streamlit client (frontend/app.py), the process launcher (start_app.py)  *)
(* and the model check of the setup test (test_setup.py).                  *)
(*                                                                         *)
(* A Python str is a sequence of one-character strings, so that strip,     *)
(* split, title, lower, startswith and "in" are computed character by      *)
(* character as Python computes them.                                       *)
(***************************************************************************)
EXTENDS Integers, Sequences, FiniteSets, TLC

VARIABLES
    requests_json_error,  \* installation: is requests' JSONDecodeError a RequestException
    last,                 \* the API service's last exchange (request, inference outcome, response)
    served,               \* the exchanges the API service has answered, oldest first
    replica,              \* the exchange a second, fresh instance of the API service answered
    text_input,           \* UI: content of the text area
    session_state,        \* UI: st.session_state
    ui_view,              \* UI: what the last script run rendered
    ui_sent,              \* UI: the HTTP requests the last script run sent
    platform,             \* launcher: platform.system()
    self,                 \* launcher: the AppStarter object (backend_process, frontend_process, running)
    children,             \* OS: the child processes spawned by the launcher
    stack,                \* launcher: call stack of the main thread (run, signal handlers)
    launcher,             \* launcher: process status and what it has observed
    probes                \* launcher: probes made so far by the running wait_for_backend

api_vars == <<requests_json_error, last, served, replica>>
ui_vars == <<text_input, session_state, ui_view, ui_sent>>
launcher_vars == <<platform, self, children, stack, launcher, probes>>
vars == <<api_vars, ui_vars, launcher_vars>>

(***************************************************************************)
(* Bounds of the model.                                                    *)
(***************************************************************************)
MaxReplyTokens == 3   \* words of a model reply
MaxModels == 2        \* entries of the inference service's model list
MaxServed == 2        \* exchanges remembered in the history
MaxSignals == 2       \* signals delivered to the launcher in one run

(***************************************************************************)
(* Python str operations.                                                  *)
(***************************************************************************)
Lowers == <<"a","b","c","d","e","f","g","h","i","j","k","l","m",
            "n","o","p","q","r","s","t","u","v","w","x","y","z">>
Uppers == <<"A","B","C","D","E","F","G","H","I","J","K","L","M",
            "N","O","P","Q","R","S","T","U","V","W","X","Y","Z">>
Whitespace == {" ", "\t", "\n", "\r", "\f"}

islower(c) == \E i \in DOMAIN Lowers : Lowers[i] = c
isupper(c) == \E i \in DOMAIN Uppers : Uppers[i] = c
tolower(c) == IF isupper(c) THEN Lowers[CHOOSE i \in DOMAIN Uppers : Uppers[i] = c] ELSE c
toupper(c) == IF islower(c) THEN Uppers[CHOOSE i \in DOMAIN Lowers : Lowers[i] = c] ELSE c

RECURSIVE lower(_)
lower(s) == IF s = <<>> THEN <<>> ELSE <<tolower(Head(s))>> \o lower(Tail(s))

RECURSIVE lstrip(_)
lstrip(s) == IF s # <<>> /\ Head(s) \in Whitespace THEN lstrip(Tail(s)) ELSE s

RECURSIVE rstrip(_)
rstrip(s) ==
    IF s # <<>> /\ s[Len(s)] \in Whitespace THEN rstrip(SubSeq(s, 1, Len(s) - 1)) ELSE s

strip(s) == rstrip(lstrip(s))

\* s.split(sep)[0]: the part of s before the first sep, all of s when there is none.
split_0(s, sep) ==
    IF \E i \in DOMAIN s : s[i] = sep
    THEN LET first == CHOOSE i \in DOMAIN s :
                          s[i] = sep /\ \A j \in 1..(i - 1) : s[j] # sep
         IN  SubSeq(s, 1, first - 1)
    ELSE s

\* s.title(): a cased character is upper-cased after an uncased one (or at the
\* start) and lower-cased after a cased one.
RECURSIVE title_from(_, _)
title_from(s, previous_is_cased) ==
    IF s = <<>> THEN <<>>
    ELSE LET c == Head(s) IN
         IF islower(c)
         THEN <<IF previous_is_cased THEN c ELSE toupper(c)>> \o title_from(Tail(s), TRUE)
         ELSE IF isupper(c)
         THEN <<IF previous_is_cased THEN tolower(c) ELSE c>> \o title_from(Tail(s), TRUE)
         ELSE <<c>> \o title_from(Tail(s), FALSE)

title(s) == title_from(s, FALSE)

\* sub in s
contains(sub, s) ==
    \E i \in 0..(Len(s) - Len(sub)) : SubSeq(s, i + 1, i + Len(sub)) = sub

startswith(s, prefix) ==
    Len(s) >= Len(prefix) /\ SubSeq(s, 1, Len(prefix)) = prefix

(***************************************************************************)
(* String literals of the program.                                         *)
(***************************************************************************)
Positive == <<"P","o","s","i","t","i","v","e">>
Negative == <<"N","e","g","a","t","i","v","e">>
Neutral == <<"N","e","u","t","r","a","l">>
Unknown == <<"U","n","k","n","o","w","n">>
positive == <<"p","o","s","i","t","i","v","e">>
negative == <<"n","e","g","a","t","i","v","e">>
mistral == <<"m","i","s","t","r","a","l">>
valid_sentiments == {Positive, Negative, Neutral}

(***************************************************************************)
(* The inference service, as the API service sees it.                      *)
(*                                                                         *)
(* An outcome of one HTTP call is either an exception raised by requests   *)
(* (exc) or an answer (status_code, body).  A body is not JSON, a JSON     *)
(* value that is no object, or an object that may hold a 'response' (a     *)
(* string or null) or a 'models' list.                                     *)
(***************************************************************************)
NoBody == [kind |-> "object", has_response |-> FALSE, response_is_str |-> FALSE,
           response |-> <<>>, has_models |-> FALSE, models |-> <<>>]
Raises(e) == [exc |-> e, status_code |-> 0, body |-> NoBody]
Answers(code, b) == [exc |-> "none", status_code |-> code, body |-> b]

RequestException == {"ConnectionError", "Timeout"} \cup
    (IF requests_json_error THEN {"JSONDecodeError"} ELSE {})

ReplyTokens == {<<" ">>, <<"\n">>, positive, <<"N","E","G","A","T","I","V","E">>,
                Neutral, <<"o","k">>}

RECURSIVE Concats(_, _)
Concats(tokens, n) ==
    IF n = 0 THEN {<<>>}
    ELSE LET shorter == Concats(tokens, n - 1)
         IN  shorter \cup {s \o t : s \in shorter, t \in tokens}

Replies == Concats(ReplyTokens, MaxReplyTokens)

GenerateBodies ==
    {[NoBody EXCEPT !.kind = k] : k \in {"not_json", "not_object"}}
    \cup {NoBody, [NoBody EXCEPT !.has_response = TRUE]}
    \cup {[NoBody EXCEPT !.has_response = TRUE, !.response_is_str = TRUE, !.response = r] :
            r \in Replies}

GenerateOutcomes ==
    {Raises(e) : e \in {"ConnectionError", "Timeout"}}
    \cup {Answers(code, NoBody) : code \in {404, 500}}
    \cup {Answers(200, b) : b \in GenerateBodies}

Texts == {<<>>, <<" ", "\n">>, <<"h","i">>, <<" ","n","o","\t">>}

(***************************************************************************)
(* backend/main.py                                                         *)
(***************************************************************************)
HTTPException(code, text) == [status_code |-> code, json |-> [detail |-> text]]

\* Lines 71-83: the label the raw reply is coerced into.
sentiment_clean_no_fallback(sentiment_raw) ==
    LET first_line == title(strip(split_0(sentiment_raw, "\n")))
        sentiment_lower == lower(first_line)
    IN  IF first_line \in valid_sentiments THEN first_line
        ELSE IF contains(positive, sentiment_lower) THEN Positive
        ELSE IF contains(negative, sentiment_lower) THEN Negative
        ELSE first_line

\* A variant of lines 78-81 that looks for 'negative' before 'positive'.
sentiment_clean_negative_first(sentiment_raw) ==
    LET first_line == title(strip(split_0(sentiment_raw, "\n")))
        sentiment_lower == lower(first_line)
    IN  IF first_line \in valid_sentiments THEN first_line
        ELSE IF contains(negative, sentiment_lower) THEN Negative
        ELSE IF contains(positive, sentiment_lower) THEN Positive
        ELSE Neutral

sentiment_clean(sentiment_raw) ==
    LET first_line == title(strip(split_0(sentiment_raw, "\n")))
        sentiment_lower == lower(first_line)
    IN  IF first_line \in valid_sentiments THEN first_line
        ELSE IF contains(positive, sentiment_lower) THEN Positive
        ELSE IF contains(negative, sentiment_lower) THEN Negative
        ELSE Neutral

\* The request of lines 48-61.
generate_request(text) ==
    [url |-> "http://localhost:11434/api/generate", model |-> "mistral", prompt |-> text,
     timeout |-> 30]

\* Lines 39-91, the body of the try: what it raises, or what it returns.
analyze_try(text, ollama) ==
    IF ollama.exc # "none" THEN [raised |-> ollama.exc, value |-> <<>>]
    ELSE IF ollama.status_code # 200 THEN [raised |-> "HTTPException", value |-> <<>>]
    ELSE IF ollama.body.kind = "not_json" THEN [raised |-> "JSONDecodeError", value |-> <<>>]
    ELSE IF ollama.body.kind = "not_object" THEN [raised |-> "TypeError", value |-> <<>>]
    ELSE IF ~ollama.body.has_response THEN [raised |-> "KeyError", value |-> <<>>]
    ELSE IF ~ollama.body.response_is_str THEN [raised |-> "AttributeError", value |-> <<>>]
    ELSE LET sentiment_raw == strip(ollama.body.response)
         IN  [raised |-> "none",
              value |-> [sentiment |-> sentiment_clean(sentiment_raw),
                         text |-> text,
                         raw_response |-> sentiment_raw]]

\* A variant of line 93 that catches requests.exceptions.ConnectionError only.
analyze_except_connection_only(r) ==
    IF r.raised = "none" THEN [status_code |-> 200, json |-> r.value]
    ELSE IF r.raised = "ConnectionError"
    THEN HTTPException(500, "Could not connect to Ollama service. Make sure Ollama is running and Mistral model is available.")
    ELSE HTTPException(500, "An unexpected error occurred")

\* Lines 87-101: the value returned, or the response the except clauses turn
\* an exception into.  The HTTPException of line 65 is raised inside the try and
\* is an Exception, so the clause of line 99 catches it.
analyze_except(r) ==
    IF r.raised = "none" THEN [status_code |-> 200, json |-> r.value]
    ELSE IF r.raised \in RequestException
    THEN HTTPException(500, "Could not connect to Ollama service. Make sure Ollama is running and Mistral model is available.")
    ELSE HTTPException(500, "An unexpected error occurred")

\* A variant that sends the request a second time when the first attempt failed.
analyze_sentiment_retry(text, ollama) ==
    IF strip(text) = <<>>
    THEN [response |-> HTTPException(400, "Text cannot be empty"), sent |-> <<>>]
    ELSE [sent |-> IF analyze_try(text, ollama).raised = "none"
                   THEN <<generate_request(text)>>
                   ELSE <<generate_request(text), generate_request(text)>>,
          response |-> analyze_except(analyze_try(text, ollama))]

\* A variant that remembers the answer it gave for a text and gives it again.
analyze_sentiment_cached(text, ollama) ==
    IF strip(text) = <<>>
    THEN [response |-> HTTPException(400, "Text cannot be empty"), sent |-> <<>>]
    ELSE IF \E i \in DOMAIN served : served[i].text = text
    THEN [sent |-> <<>>,
          response |-> served[CHOOSE i \in DOMAIN served : served[i].text = text].response]
    ELSE [sent |-> <<generate_request(text)>>,
          response |-> analyze_except(analyze_try(text, ollama))]

\* Lines 36-101: the handler's response and the requests it sent to the
\* inference service.
analyze_sentiment(text, ollama) ==
    IF strip(text) = <<>>
    THEN [response |-> HTTPException(400, "Text cannot be empty"), sent |-> <<>>]
    ELSE [sent |-> <<generate_request(text)>>,
          response |-> analyze_except(analyze_try(text, ollama))]

\* Line 26, text: str = Form(...): a required form field.  FastAPI counts an
\* empty form value as a missing one and answers 422 without calling the handler.
Form(text) == text # <<>>

post_analyze(text, ollama) ==
    IF Form(text) THEN analyze_sentiment(text, ollama)
    ELSE [response |-> HTTPException(422, "Field required"), sent |-> <<>>]

\* Lines 21-23.
read_root == [status_code |-> 200, json |-> [message |-> "Sentiment Analyzer API is running!"]]

(***************************************************************************)
(* The model list of the inference service (GET /api/tags).                *)
(***************************************************************************)
ModelNames == {mistral,
               mistral \o <<":","7","b">>,
               <<"M","i","s","t","r","a","l">>,
               <<"o","p","e","n","-">> \o mistral,
               <<"l","l","a","m","a","2">>}
ModelEntries == {[has_name |-> TRUE, name |-> n] : n \in ModelNames}
                \cup {[has_name |-> FALSE, name |-> <<>>]}

RECURSIVE Lists(_, _)
Lists(entries, n) ==
    IF n = 0 THEN {<<>>}
    ELSE LET shorter == Lists(entries, n - 1)
         IN  shorter \cup {Append(l, e) : l \in shorter, e \in entries}

TagsBodies ==
    {[NoBody EXCEPT !.kind = k] : k \in {"not_json", "not_object"}}
    \cup {NoBody}
    \cup {[NoBody EXCEPT !.has_models = TRUE, !.models = l] :
            l \in Lists(ModelEntries, MaxModels)}

TagsOutcomes ==
    {Raises(e) : e \in {"ConnectionError", "Timeout"}}
    \cup {Answers(code, NoBody) : code \in {404, 500}}
    \cup {Answers(200, b) : b \in TagsBodies}

tags_request(seconds) ==
    [url |-> "http://localhost:11434/api/tags", model |-> "", prompt |-> <<>>,
     timeout |-> seconds]

\* Line 111: any(model["name"].startswith("mistral") for model in models["models"]),
\* evaluated entry by entry: "True" at the first match, "KeyError" at an entry
\* without a name met before any match, "False" at the end of the list.
RECURSIVE any_startswith_mistral(_)
any_startswith_mistral(models) ==
    IF models = <<>> THEN "False"
    ELSE IF ~Head(models).has_name THEN "KeyError"
    ELSE IF startswith(Head(models).name, mistral) THEN "True"
    ELSE any_startswith_mistral(Tail(models))

health_body(ollama_status, available) ==
    [api_status |-> "healthy", ollama_status |-> ollama_status,
     mistral_available |-> available]

\* The handler without the "except Exception" of line 123: an exception leaves
\* the request with the framework's 500.
health_check_uncaught(tags) ==
    IF tags.exc # "none" THEN HTTPException(500, "Internal Server Error")
    ELSE IF tags.status_code = 200
    THEN IF tags.body.kind # "object" \/ ~tags.body.has_models
            \/ any_startswith_mistral(tags.body.models) = "KeyError"
         THEN HTTPException(500, "Internal Server Error")
         ELSE [status_code |-> 200,
               json |-> health_body("connected",
                                    any_startswith_mistral(tags.body.models) = "True")]
    ELSE [status_code |-> 200, json |-> health_body("error", FALSE)]

\* Lines 104-129.
health_check(tags) ==
    IF tags.exc # "none"
    THEN [status_code |-> 200, json |-> health_body("disconnected", FALSE)]
    ELSE IF tags.status_code = 200
    THEN IF tags.body.kind # "object" \/ ~tags.body.has_models
            \/ any_startswith_mistral(tags.body.models) = "KeyError"
         THEN [status_code |-> 200, json |-> health_body("disconnected", FALSE)]
         ELSE [status_code |-> 200,
               json |-> health_body("connected",
                                    any_startswith_mistral(tags.body.models) = "True")]
    ELSE [status_code |-> 200, json |-> health_body("error", FALSE)]

(***************************************************************************)
(* test_setup.py                                                           *)
(***************************************************************************)
\* Lines 58-63: the loop over models.get("models", []) that looks for
\* "mistral" in model.get("name", "").lower(); an entry without a name counts
\* as the empty name.
RECURSIVE mistral_found(_)
mistral_found(models) ==
    IF models = <<>> THEN FALSE
    ELSE LET name == IF Head(models).has_name THEN Head(models).name ELSE <<>>
         IN  IF contains(mistral, lower(name)) THEN TRUE
             ELSE mistral_found(Tail(models))

\* Lines 47-79: True when the inference service lists a Mistral model.
test_ollama_connection(tags) ==
    IF tags.exc # "none" THEN FALSE
    ELSE IF tags.status_code # 200 THEN FALSE
    ELSE IF tags.body.kind # "object" THEN FALSE
    ELSE mistral_found(IF tags.body.has_models THEN tags.body.models ELSE <<>>)

(***************************************************************************)
(* The API service answering requests.                                     *)
(***************************************************************************)
\* An exchange is "pending" from the arrival of the request until the handler
\* has answered it.
Exchange(endpoint, text, ollama, sent, response) ==
    [state |-> "answered", endpoint |-> endpoint, text |-> text, ollama |-> ollama,
     sent |-> sent, response |-> response]

NoResponse == [status_code |-> 0, json |-> [detail |-> ""]]
NoExchange == [Exchange("none", <<>>, Raises("none"), <<>>, NoResponse) EXCEPT !.state = "none"]
Pending(endpoint, text) ==
    [Exchange(endpoint, text, Raises("none"), <<>>, NoResponse) EXCEPT !.state = "pending"]

\* The inputs of the runs that compare exchanges with each other: one outcome
\* for each path through the handler.
SampleTexts == {<<" ">>, <<"h","i">>, <<"n","o">>}
SampleGenerateOutcomes ==
    {Raises("Timeout"),
     Answers(404, NoBody),
     Answers(200, [NoBody EXCEPT !.kind = "not_json"]),
     Answers(200, [NoBody EXCEPT !.has_response = TRUE, !.response_is_str = TRUE,
                                 !.response = Positive]),
     Answers(200, [NoBody EXCEPT !.has_response = TRUE, !.response_is_str = TRUE,
                                 !.response = negative \o <<"\n">>]),
     Answers(200, [NoBody EXCEPT !.has_response = TRUE, !.response_is_str = TRUE,
                                 !.response = <<"m","e","h">>])}
SampleTagsOutcomes ==
    {Raises("ConnectionError"),
     Answers(500, NoBody),
     Answers(200, NoBody),
     Answers(200, [NoBody EXCEPT !.has_models = TRUE,
                                 !.models = <<[has_name |-> TRUE, name |-> mistral]>>]),
     Answers(200, [NoBody EXCEPT !.has_models = TRUE, !.models = <<>>])}

ApiInit ==
    /\ requests_json_error \in BOOLEAN
    /\ last = NoExchange
    /\ served = <<>>
    /\ replica = NoExchange

\* A client sends a request to the API service.
Request ==
    /\ last.state # "pending"
    /\ \/ \E text \in Texts : last' = Pending("/analyze/", text)
       \/ last' = Pending("/health/", <<>>)
       \/ last' = Pending("/", <<>>)
    /\ UNCHANGED <<requests_json_error, served, replica, ui_vars, launcher_vars>>

\* POST /analyze/ is answered.
PostAnalyze ==
    /\ last.state = "pending"
    /\ last.endpoint = "/analyze/"
    /\ \E ollama \in GenerateOutcomes :
          LET r == post_analyze(last.text, ollama)
          IN  last' = Exchange("/analyze/", last.text, ollama, r.sent, r.response)
    /\ UNCHANGED <<requests_json_error, served, replica, ui_vars, launcher_vars>>

\* GET /health/ is answered.
GetHealth ==
    /\ last.state = "pending"
    /\ last.endpoint = "/health/"
    /\ \E tags \in TagsOutcomes :
          last' = Exchange("/health/", <<>>, tags, <<tags_request(5)>>, health_check(tags))
    /\ UNCHANGED <<requests_json_error, served, replica, ui_vars, launcher_vars>>

\* GET / is answered.
GetRoot ==
    /\ last.state = "pending"
    /\ last.endpoint = "/"
    /\ last' = Exchange("/", <<>>, Raises("none"), <<>>, read_root)
    /\ UNCHANGED <<requests_json_error, served, replica, ui_vars, launcher_vars>>

\* A second instance of the API service, which has served nothing before,
\* answers one POST /analyze/.
ReplicaServes ==
    /\ replica.state = "none"
    /\ served = <<>>
    /\ \E text \in SampleTexts, ollama \in SampleGenerateOutcomes :
          LET r == post_analyze(text, ollama)
          IN  replica' = Exchange("/analyze/", text, ollama, r.sent, r.response)
    /\ UNCHANGED <<requests_json_error, last, served, ui_vars, launcher_vars>>

\* The API service answers one more POST /analyze/.
Serve ==
    /\ replica.state = "answered"
    /\ Len(served) < MaxServed
    /\ \E text \in SampleTexts, ollama \in SampleGenerateOutcomes :
          LET r == post_analyze(text, ollama)
          IN  served' = Append(served, Exchange("/analyze/", text, ollama, r.sent, r.response))
    /\ UNCHANGED <<requests_json_error, last, replica, ui_vars, launcher_vars>>

(***************************************************************************)
(* frontend/app.py: every interaction reruns the script.                   *)
(***************************************************************************)
\* Lines 187-191.
sample_text_Positive ==
    <<"I"," ","a","b","s","o","l","u","t","e","l","y"," ","l","o","v","e"," ",
    "t","h","i","s"," ","n","e","w"," ","r","e","s","t","a","u","r","a","n",
    "t","!"," ","T","h","e"," ","f","o","o","d"," ","w","a","s"," ","d","e",
    "l","i","c","i","o","u","s"," ","a","n","d"," ","t","h","e"," ","s","e",
    "r","v","i","c","e"," ","w","a","s"," ","e","x","c","e","p","t","i","o",
    "n","a","l",".">>
sample_text_Negative ==
    <<"T","h","i","s"," ","m","o","v","i","e"," ","w","a","s"," ","t","e","r",
    "r","i","b","l","e","."," ","I"," ","w","a","s","t","e","d"," ","m","y",
    " ","m","o","n","e","y"," ","a","n","d"," ","f","e","l","l"," ","a","s",
    "l","e","e","p"," ","h","a","l","f","w","a","y"," ","t","h","r","o","u",
    "g","h",".">>
sample_text_Neutral ==
    <<"T","h","e"," ","m","e","e","t","i","n","g"," ","i","s"," ","s","c","h",
    "e","d","u","l","e","d"," ","f","o","r"," ","2"," ","P","M"," ","t","o",
    "m","o","r","r","o","w"," ","i","n"," ","c","o","n","f","e","r","e","n",
    "c","e"," ","r","o","o","m"," ","B","."," ","P","l","e","a","s","e"," ",
    "b","r","i","n","g"," ","y","o","u","r"," ","l","a","p","t","o","p","s",
    ".">>
sample_texts == [Positive |-> sample_text_Positive, Negative |-> sample_text_Negative,
                 Neutral |-> sample_text_Neutral]

\* What the client's HTTP call comes back with: an exception of requests, or a
\* reply that may or may not be JSON.
Reply(code, is_json, json) ==
    [exc |-> "none", status_code |-> code, is_json |-> is_json, json |-> json]
Fails(e) == [exc |-> e, status_code |-> 0, is_json |-> FALSE, json |-> [detail |-> ""]]
ApiReply(response) == Reply(response.status_code, TRUE, response.json)

\* Replies of whatever else may listen on port 8000.
ForeignReplies ==
    {Reply(200, TRUE, [text |-> <<"h","i">>]),
     Reply(200, TRUE, [sentiment |-> <<"P","O","S","I","T","I","V","E">>]),
     Reply(200, TRUE, [sentiment |-> negative]),
     Reply(200, TRUE, [sentiment |-> <<" ">> \o positive]),
     Reply(200, TRUE, [sentiment |-> <<"M","i","x","e","d">>]),
     Reply(200, FALSE, [detail |-> ""]),
     Reply(503, TRUE, [message |-> "unavailable"]),
     Reply(503, FALSE, [detail |-> ""])}

\* What a script run rendered: the interaction that triggered it, the status of
\* the reply it got (0 without one) and the element shown.
View(trigger, status_code, kind, style, sentiment, message) ==
    [trigger |-> trigger, status_code |-> status_code, kind |-> kind, style |-> style,
     sentiment |-> sentiment, message |-> message]
Idle(trigger) == View(trigger, 0, "idle", "", <<>>, "")
Error(trigger, status_code, message) == View(trigger, status_code, "error", "", <<>>, message)

analyze_post(text) ==
    [method |-> "POST", url |-> "http://localhost:8000/analyze/", text |-> text]

\* Lines 144-165: the style a label is rendered with.  This variant compares
\* the label as returned, without lower-casing it.
sentiment_style_case_sensitive(sentiment) ==
    IF sentiment = positive THEN "sentiment-positive"
    ELSE IF sentiment = negative THEN "sentiment-negative"
    ELSE "sentiment-neutral"

sentiment_style(sentiment) ==
    LET sentiment_lower == lower(sentiment)
    IN  IF sentiment_lower = positive THEN "sentiment-positive"
        ELSE IF sentiment_lower = negative THEN "sentiment-negative"
        ELSE "sentiment-neutral"

\* Lines 136-183: what is rendered for the outcome of the POST.
render_analysis(reply) ==
    IF reply.exc = "Timeout"
    THEN Error("analyze", 0, "Request timed out. The model might be taking longer than expected.")
    ELSE IF reply.exc = "ConnectionError"
    THEN Error("analyze", 0, "Cannot connect to the backend API. Make sure the FastAPI server is running on localhost:8000")
    ELSE IF ~reply.is_json
    THEN Error("analyze", reply.status_code, "An unexpected error occurred")
    ELSE IF reply.status_code = 200
    THEN LET sentiment == IF "sentiment" \in DOMAIN reply.json
                          THEN reply.json.sentiment ELSE Unknown
         IN  View("analyze", 200, "result", sentiment_style(sentiment), sentiment,
                  "Analysis complete!")
    ELSE Error("analyze", reply.status_code,
               IF "detail" \in DOMAIN reply.json THEN reply.json.detail ELSE "Unknown error")

\* Lines 121-183: the script run after a press of "Analyze Sentiment".
analyze_button(text, reply) ==
    IF strip(text) = <<>>
    THEN [sent |-> <<>>, view |-> Error("analyze", 0, "Please enter some text to analyze!")]
    ELSE [sent |-> <<analyze_post(text)>>, view |-> render_analysis(reply)]

\* Lines 79-96: the script run after a press of "Check System Health".
health_button(reply) ==
    IF reply.exc # "none" \/ ~reply.is_json
    THEN Error("health", reply.status_code, "Cannot connect to API")
    ELSE IF reply.status_code # 200
    THEN Error("health", reply.status_code, "API is not responding")
    ELSE IF "ollama_status" \in DOMAIN reply.json /\ reply.json.ollama_status = "connected"
    THEN IF "mistral_available" \in DOMAIN reply.json /\ reply.json.mistral_available
         THEN View("health", 200, "health", "", <<>>, "Mistral model is available")
         ELSE View("health", 200, "health", "", <<>>, "Mistral model not found")
    ELSE View("health", 200, "health", "", <<>>, "Ollama is not connected")

UiInit ==
    /\ text_input = <<>>
    /\ session_state = [sample_text |-> "none", text_input |-> "none"]
    /\ ui_view = Idle("start")
    /\ ui_sent = <<>>

\* The user edits the text area.
TypeText ==
    \E t \in Texts :
        /\ text_input' = t
        /\ ui_view' = Idle("type")
        /\ ui_sent' = <<>>
        /\ UNCHANGED <<session_state, api_vars, launcher_vars>>

\* The user presses "Analyze Sentiment"; the POST, when one is sent, is answered
\* by the API service, by something else on its port, or not at all.
AnalyzeButton ==
    \E reply \in {ApiReply(post_analyze(text_input, o).response) : o \in SampleGenerateOutcomes}
                 \cup ForeignReplies \cup {Fails("Timeout"), Fails("ConnectionError")} :
        LET run == analyze_button(text_input, reply)
        IN  /\ ui_view' = run.view
            /\ ui_sent' = run.sent
            /\ UNCHANGED <<text_input, session_state, api_vars, launcher_vars>>

\* The user presses "Check System Health".
HealthButton ==
    \E reply \in {ApiReply(health_check(t)) : t \in SampleTagsOutcomes}
                 \cup {Reply(503, TRUE, [message |-> "unavailable"]), Fails("ConnectionError")} :
        /\ ui_view' = health_button(reply)
        /\ ui_sent' = <<[method |-> "GET", url |-> "http://localhost:8000/health/",
                         text |-> <<>>]>>
        /\ UNCHANGED <<text_input, session_state, api_vars, launcher_vars>>

\* Lines 195-205: the user presses one of the three example buttons.
SampleButton ==
    \E k \in DOMAIN sample_texts :
        /\ session_state' = [session_state EXCEPT !.sample_text = k]
        /\ ui_view' = Idle("sample")
        /\ ui_sent' = <<>>
        /\ UNCHANGED <<text_input, api_vars, launcher_vars>>

\* Lines 208-216: the user presses "Use This Sample", shown while a sample is
\* selected.  The rerun gives the text area a new default value; whether a keyed
\* widget takes it over depends on the Streamlit version.
UseSample ==
    /\ session_state.sample_text # "none"
    /\ session_state' = [sample_text |-> "none", text_input |-> session_state.sample_text]
    /\ text_input' \in {text_input, sample_texts[session_state.sample_text]}
    /\ ui_view' = Idle("use_sample")
    /\ ui_sent' = <<>>
    /\ UNCHANGED <<api_vars, launcher_vars>>

(***************************************************************************)
(* start_app.py                                                            *)
(*                                                                         *)
(* The launcher runs in one thread.  stack holds its frames: run at the    *)
(* bottom and one frame per signal handler that interrupted the frame      *)
(* below it.  The top frame is the one executing; a frame's pc is the      *)
(* statement it is executing, or will resume, and ret is where its call of *)
(* stop_services returns to.                                               *)
(***************************************************************************)
WaitAttempts == 30

Services == {"backend", "frontend"}
Field == [backend |-> "backend_process", frontend |-> "frontend_process"]

Frame(fn, pc, ret) == [fn |-> fn, pc |-> pc, ret |-> ret]
Top == stack[Len(stack)]
Below == SubSeq(stack, 1, Len(stack) - 1)
Goto(pc) == [stack EXCEPT ![Len(stack)].pc = pc]
Call(pc, ret) == [stack EXCEPT ![Len(stack)].pc = pc, ![Len(stack)].ret = ret]
At(pc) == launcher.status = "running" /\ stack # <<>> /\ Top.pc = pc

NotSpawned == [state |-> "none", terminate |-> FALSE, kill |-> FALSE]

LauncherInit ==
    /\ platform \in {"Linux", "Windows"}
    /\ self = [backend_process |-> "None", frontend_process |-> "None", running |-> TRUE]
    /\ children = [c \in Services |-> NotSpawned]
    /\ stack = <<Frame("run", "start", "none")>>
    /\ launcher = [status |-> "running", exit_code |-> -1, returned |-> "none",
                   handlers |-> {}, signals |-> 0, requirements |-> "none",
                   seen_alive |-> {}, probe_200 |-> FALSE, wait_for_backend |-> "none"]
    /\ probes = 0

\* Lines 28-37.
setup_signal_handlers ==
    IF platform # "Windows" THEN {"SIGINT", "SIGTERM"} ELSE {"SIGINT"}

\* Lines 244-250: run() installs the signal handlers.
Run ==
    /\ At("start")
    /\ launcher' = [launcher EXCEPT !.handlers = setup_signal_handlers]
    /\ stack' = Goto("check_requirements")
    /\ UNCHANGED <<api_vars, ui_vars, platform, self, children, probes>>

\* Line 67: any("mistral" in model["name"].lower() for model in ...), entry by entry.
RECURSIVE any_contains_mistral(_)
any_contains_mistral(models) ==
    IF models = <<>> THEN "False"
    ELSE IF ~Head(models).has_name THEN "KeyError"
    ELSE IF contains(mistral, lower(Head(models).name)) THEN "True"
    ELSE any_contains_mistral(Tail(models))

Answers_yN == {<<"y">>, <<"Y">>, <<"n">>, <<>>, <<"y","e","s">>}

\* Lines 39-89.  files: both source files exist; packages: the imports succeed;
\* tags: what GET /api/tags comes back with; answer: what the user types when asked.
check_requirements(files, packages, tags, answer) ==
    LET continue_anyway == lower(answer) = <<"y">>
        models == IF tags.body.has_models THEN tags.body.models ELSE <<>>
    IN  IF ~files THEN FALSE
        ELSE IF ~packages THEN FALSE
        ELSE IF tags.exc # "none" THEN continue_anyway
        ELSE IF tags.status_code # 200 THEN FALSE
        ELSE IF tags.body.kind # "object" THEN continue_anyway
        ELSE IF any_contains_mistral(models) = "KeyError" THEN continue_anyway
        ELSE IF any_contains_mistral(models) = "True" THEN TRUE
        ELSE continue_anyway

\* Lines 252-255.
CheckRequirements ==
    /\ At("check_requirements")
    /\ \E files \in BOOLEAN, packages \in BOOLEAN, tags \in TagsOutcomes,
          answer \in Answers_yN :
          LET ok == check_requirements(files, packages, tags, answer)
          IN  /\ launcher' = [launcher EXCEPT
                                  !.requirements = IF ok THEN "True" ELSE "False"]
              /\ stack' = Goto(IF ok THEN "start_backend" ELSE "return_False")
    /\ UNCHANGED <<api_vars, ui_vars, platform, self, children, probes>>

\* subprocess.Popen(...) of start_backend (lines 102-118) and start_frontend
\* (lines 148-162): the child is created, or Popen raises and the function
\* returns False through its "except Exception".  The assignment of the Popen
\* object to the attribute of self is a later step.
Popen(c, failed) ==
    /\ At("start_" \o c)
    /\ \/ /\ children' = [children EXCEPT ![c].state = "running"]
          /\ stack' = Goto(c \o "_spawned")
       \/ /\ stack' = failed
          /\ UNCHANGED children
    /\ UNCHANGED <<api_vars, ui_vars, platform, self, launcher, probes>>

\* self.backend_process = ... / self.frontend_process = ...
Assign(c) ==
    /\ At(c \o "_spawned")
    /\ self' = [self EXCEPT ![Field[c]] = "Popen"]
    /\ stack' = Goto(c \o "_sleep")
    /\ UNCHANGED <<api_vars, ui_vars, platform, children, launcher, probes>>

\* time.sleep, then poll() (lines 121-129, 165-173): True when the child is
\* still running.
Poll(c, started, failed) ==
    /\ At(c \o "_sleep")
    /\ IF children[c].state = "running"
       THEN /\ launcher' = [launcher EXCEPT !.seen_alive = @ \cup {c}]
            /\ stack' = started
       ELSE /\ stack' = failed
            /\ UNCHANGED launcher
    /\ UNCHANGED <<api_vars, ui_vars, platform, self, children, probes>>

\* Lines 259-262: a failed start_backend makes run return False at once.
StartBackendPopen == Popen("backend", Goto("return_False"))
StartBackendAssign == Assign("backend")
StartBackendPoll == Poll("backend", Goto("wait_for_backend_probe"), Goto("return_False"))

\* Lines 183-186: one probe of the backend's root URL.  Whatever listens on the
\* port answers, so the answer is not tied to the child's state.
WaitForBackendProbe ==
    /\ At("wait_for_backend_probe")
    /\ probes' = probes + 1
    /\ \E answer \in {"200", "other status", "raises"} :
          IF answer = "200"
          THEN /\ launcher' = [launcher EXCEPT !.probe_200 = TRUE]
               /\ stack' = Goto("wait_for_backend_ready")
          ELSE /\ stack' = Goto("wait_for_backend_sleep")
               /\ UNCHANGED launcher
    /\ UNCHANGED <<api_vars, ui_vars, platform, self, children>>

\* Lines 187-188: after a probe answered 200, the print and "return True", still
\* inside the try.  The loop counter ends with the call.
WaitForBackendReady ==
    /\ At("wait_for_backend_ready")
    /\ launcher' = [launcher EXCEPT !.wait_for_backend = "True"]
    /\ stack' = Goto("start_frontend")
    /\ probes' = 0
    /\ UNCHANGED <<api_vars, ui_vars, platform, self, children>>

\* A variant of lines 191-194 and 265-268 that starts the frontend although no
\* probe succeeded.
WaitForBackendSleepIgnored ==
    /\ At("wait_for_backend_sleep")
    /\ stack' = IF probes >= WaitAttempts
                THEN Goto("start_frontend")
                ELSE Goto("wait_for_backend_probe")
    /\ probes' = IF probes >= WaitAttempts THEN 0 ELSE probes
    /\ UNCHANGED <<api_vars, ui_vars, platform, self, children, launcher>>

\* Lines 191-194 and 265-268: time.sleep(1) and the next iteration; after the
\* last one wait_for_backend returns False and run stops the services.
WaitForBackendSleep ==
    /\ At("wait_for_backend_sleep")
    /\ IF probes >= WaitAttempts
       THEN /\ stack' = Call("stop_backend", "return_False")
            /\ launcher' = [launcher EXCEPT !.wait_for_backend = "False"]
            /\ probes' = 0
       ELSE /\ stack' = Goto("wait_for_backend_probe")
            /\ UNCHANGED <<launcher, probes>>
    /\ UNCHANGED <<api_vars, ui_vars, platform, self, children>>

\* Lines 270-274: a failed start_frontend makes run stop the services.
StartFrontendPopen == Popen("frontend", Call("stop_backend", "return_False"))
StartFrontendAssign == Assign("frontend")
StartFrontendPoll ==
    Poll("frontend", Goto("monitor"), Call("stop_backend", "return_False"))

\* A variant of lines 290-296 that polls the backend only.
MonitorBackendOnly ==
    /\ At("monitor")
    /\ IF ~self.running
       THEN stack' = Call("stop_backend", "return_True")
       ELSE IF self.backend_process # "None" /\ children["backend"].state # "running"
       THEN stack' = Call("stop_backend", "return_True")
       ELSE stack' = stack
    /\ UNCHANGED <<api_vars, ui_vars, platform, self, children, launcher, probes>>

\* Lines 284-301: one turn of the monitor loop; it ends when self.running is
\* False or a child is found dead, and run then stops the services.
Monitor ==
    /\ At("monitor")
    /\ IF ~self.running
       THEN stack' = Call("stop_backend", "return_True")
       ELSE IF \E c \in Services :
                   self[Field[c]] # "None" /\ children[c].state # "running"
       THEN stack' = Call("stop_backend", "return_True")
       ELSE stack' = stack
    /\ UNCHANGED <<api_vars, ui_vars, platform, self, children, launcher, probes>>

\* Where stop_services goes on after the part for child c.
AfterStop(c) == IF c = "backend" THEN Goto("stop_frontend") ELSE Goto(Top.ret)

\* Lines 198-206 and 221-229: nothing to do for a child that was never assigned;
\* otherwise termination is requested.  send_signal(CTRL_BREAK_EVENT) on Windows
\* can raise, which leads to the "except Exception" of lines 214 and 237.
StopTerminate(c) ==
    /\ At("stop_" \o c)
    /\ IF self[Field[c]] = "None"
       THEN /\ stack' = AfterStop(c)
            /\ UNCHANGED children
       ELSE \/ /\ children' = [children EXCEPT
                                   ![c].terminate = @ \/ children[c].state = "running"]
               /\ stack' = Goto("stop_" \o c \o "_wait")
            \/ /\ platform = "Windows"
               /\ stack' = Goto("stop_" \o c \o "_kill")
               /\ UNCHANGED children
    /\ UNCHANGED <<api_vars, ui_vars, platform, self, launcher, probes>>

\* A variant of lines 208-213 that does not kill a child that outlives the wait.
StopWaitNoKill(c) ==
    /\ At("stop_" \o c \o "_wait")
    /\ \/ children' = [children EXCEPT
                           ![c].state = IF @ = "running" THEN "exited" ELSE @]
       \/ /\ children[c].state = "running"
          /\ UNCHANGED children
    /\ stack' = AfterStop(c)
    /\ UNCHANGED <<api_vars, ui_vars, platform, self, launcher, probes>>

\* Lines 208-213 and 231-236: wait(timeout=5); a child that has not exited by
\* then is killed and waited for.
StopWait(c) ==
    /\ At("stop_" \o c \o "_wait")
    /\ \/ children' = [children EXCEPT
                           ![c].state = IF @ = "running" THEN "exited" ELSE @]
       \/ /\ children[c].state = "running"
          /\ children' = [children EXCEPT ![c].state = "exited", ![c].kill = TRUE]
    /\ stack' = AfterStop(c)
    /\ UNCHANGED <<api_vars, ui_vars, platform, self, launcher, probes>>

\* A variant of lines 214-219 that leaves stop_services after the error.
StopKillReturns(c) ==
    /\ At("stop_" \o c \o "_kill")
    /\ children' = [children EXCEPT
                        ![c].state = IF @ = "running" THEN "exited" ELSE @,
                        ![c].kill = @ \/ children[c].state = "running"]
    /\ stack' = Goto(Top.ret)
    /\ UNCHANGED <<api_vars, ui_vars, platform, self, launcher, probes>>

\* Lines 214-219 and 237-242: after an error, kill() inside a bare except.
StopKill(c) ==
    /\ At("stop_" \o c \o "_kill")
    /\ children' = [children EXCEPT
                        ![c].state = IF @ = "running" THEN "exited" ELSE @,
                        ![c].kill = @ \/ children[c].state = "running"]
    /\ stack' = AfterStop(c)
    /\ UNCHANGED <<api_vars, ui_vars, platform, self, launcher, probes>>

StopBackendTerminate == StopTerminate("backend")
StopBackendWait == StopWait("backend")
StopBackendKill == StopKill("backend")
StopFrontendTerminate == StopTerminate("frontend")
StopFrontendWait == StopWait("frontend")
StopFrontendKill == StopKill("frontend")

\* run returns (lines 255, 262, 268, 274, 303).
Return ==
    /\ \E value \in {"True", "False"} :
          /\ At("return_" \o value)
          /\ launcher' = [launcher EXCEPT !.returned = value]
    /\ stack' = Goto("main_exit")
    /\ UNCHANGED <<api_vars, ui_vars, platform, self, children, probes>>

\* A variant of line 309 that always exits with status 0.
MainExitZero ==
    /\ At("main_exit")
    /\ launcher' = [launcher EXCEPT !.status = "exited", !.exit_code = 0]
    /\ stack' = <<>>
    /\ UNCHANGED <<api_vars, ui_vars, platform, self, children, probes>>

\* Lines 308-309: sys.exit(0 if success else 1).
MainExit ==
    /\ At("main_exit")
    /\ launcher' = [launcher EXCEPT
                        !.status = "exited",
                        !.exit_code = IF launcher.returned = "True" THEN 0 ELSE 1]
    /\ stack' = <<>>
    /\ UNCHANGED <<api_vars, ui_vars, platform, self, children, probes>>

\* Lines 21-25: a handled signal is delivered; the handler interrupts whatever
\* the main thread is executing, clears self.running and calls stop_services.
SignalHandler ==
    /\ launcher.status = "running"
    /\ stack # <<>>
    /\ launcher.signals < MaxSignals
    /\ \E signum \in launcher.handlers :
          launcher' = [launcher EXCEPT !.signals = @ + 1]
    /\ self' = [self EXCEPT !.running = FALSE]
    /\ stack' = Append(stack, Frame("signal_handler", "stop_backend", "sys_exit"))
    /\ UNCHANGED <<api_vars, ui_vars, platform, children, probes>>

\* The statements that sit inside a bare "except:", which catches SystemExit:
\* the try of wait_for_backend (lines 184-190) and the kill() of
\* stop_services (lines 216-219, 239-242).
BareExcept == {"wait_for_backend_probe", "wait_for_backend_ready",
               "stop_backend_kill", "stop_frontend_kill"}

\* Where a frame goes on after its bare except caught an exception.
AfterExcept(f) ==
    IF f.pc \in {"wait_for_backend_probe", "wait_for_backend_ready"}
    THEN "wait_for_backend_sleep"
    ELSE IF f.pc = "stop_backend_kill" THEN "stop_frontend"
    ELSE f.ret

\* SystemExit raised into the top frame of frames: a frame inside a bare except
\* catches it and goes on; any other frame is left.  The empty stack means that
\* the exception left the program.
RECURSIVE unwind(_)
unwind(frames) ==
    IF frames = <<>> THEN <<>>
    ELSE LET f == frames[Len(frames)]
         IN  IF f.pc \in BareExcept
             THEN [frames EXCEPT ![Len(frames)].pc = AfterExcept(f)]
             ELSE unwind(SubSeq(frames, 1, Len(frames) - 1))

\* The statement of the frame that catches a SystemExit raised into the top
\* frame of frames, "none" when no frame does.
RECURSIVE caught_at(_)
caught_at(frames) ==
    IF frames = <<>> THEN "none"
    ELSE IF frames[Len(frames)].pc \in BareExcept THEN frames[Len(frames)].pc
    ELSE caught_at(SubSeq(frames, 1, Len(frames) - 1))

\* Line 26: sys.exit(0) in the signal handler raises SystemExit in the
\* interrupted frame.  An interrupted requests.get is a probe that raised.
SysExit ==
    /\ At("sys_exit")
    /\ stack' = unwind(Below)
    /\ launcher' = IF unwind(Below) = <<>>
                   THEN [launcher EXCEPT !.status = "exited", !.exit_code = 0]
                   ELSE launcher
    /\ probes' = IF caught_at(Below) = "wait_for_backend_probe"
                 THEN probes + 1 ELSE probes
    /\ UNCHANGED <<api_vars, ui_vars, platform, self, children>>

\* A child process ends on its own.
ChildExits ==
    /\ \E c \in Services :
          /\ children[c].state = "running"
          /\ children' = [children EXCEPT ![c].state = "exited"]
    /\ UNCHANGED <<api_vars, ui_vars, platform, self, stack, launcher, probes>>

(***************************************************************************)
(* Specifications.                                                         *)
(***************************************************************************)
\* The API service; the requests library is either version, the platform plays
\* no part.
Init == ApiInit /\ UiInit /\ LauncherInit /\ platform = "Linux"

Next ==
    \/ Request
    \/ PostAnalyze
    \/ GetHealth
    \/ GetRoot

Spec == Init /\ [][Next]_vars

\* Two instances of the API service, one with a history and one without.
NextHistory ==
    \/ ReplicaServes
    \/ Serve

SpecHistory == Init /\ [][NextHistory]_vars

\* The UI client.
NextUi ==
    \/ TypeText
    \/ AnalyzeButton
    \/ HealthButton
    \/ SampleButton
    \/ UseSample

SpecUi == Init /\ [][NextUi]_vars

\* The process launcher and its children, on either platform.
InitLauncher == ApiInit /\ UiInit /\ LauncherInit /\ ~requests_json_error

NextLauncher ==
    \/ Run
    \/ CheckRequirements
    \/ StartBackendPopen
    \/ StartBackendAssign
    \/ StartBackendPoll
    \/ WaitForBackendProbe
    \/ WaitForBackendReady
    \/ WaitForBackendSleep
    \/ StartFrontendPopen
    \/ StartFrontendAssign
    \/ StartFrontendPoll
    \/ Monitor
    \/ StopBackendTerminate
    \/ StopBackendWait
    \/ StopBackendKill
    \/ StopFrontendTerminate
    \/ StopFrontendWait
    \/ StopFrontendKill
    \/ Return
    \/ MainExit
    \/ SignalHandler
    \/ SysExit
    \/ ChildExits

SpecLauncher == InitLauncher /\ [][NextLauncher]_vars

\* The steps of the launcher's own thread.  Each of them ends: the sleeps, the
\* probes (timeout=2) and wait(timeout=5) are bounded, and a killed child is
\* taken to exit.  Signals and the children's deaths come from outside.
LauncherStep ==
    \/ Run
    \/ CheckRequirements
    \/ StartBackendPopen
    \/ StartBackendAssign
    \/ StartBackendPoll
    \/ WaitForBackendProbe
    \/ WaitForBackendReady
    \/ WaitForBackendSleep
    \/ StartFrontendPopen
    \/ StartFrontendAssign
    \/ StartFrontendPoll
    \/ Monitor
    \/ StopBackendTerminate
    \/ StopBackendWait
    \/ StopBackendKill
    \/ StopFrontendTerminate
    \/ StopFrontendWait
    \/ StopFrontendKill
    \/ Return
    \/ MainExit
    \/ SysExit

\* The launcher whose thread keeps running.
SpecLauncherFair == SpecLauncher /\ WF_vars(LauncherStep)

(***************************************************************************)
(* The claims about the API service (specification Spec).                  *)
(***************************************************************************)
Answered(endpoint) == last.state = "answered" /\ last.endpoint = endpoint

\* The inference service answered 200 with a JSON object holding a string
\* 'response'.
ModelReplied ==
    /\ last.ollama.exc = "none"
    /\ last.ollama.status_code = 200
    /\ last.ollama.body.kind = "object"
    /\ last.ollama.body.has_response
    /\ last.ollama.body.response_is_str

\* C1: a POST /analyze/ with non-blank text that the inference service answers
\* with status 200 and a string 'response' is answered 200 with a sentiment that
\* is Positive, Negative or Neutral, whatever the reply text is.
C1_SentimentIsOneOfThree ==
    (Answered("/analyze/") /\ strip(last.text) # <<>> /\ ModelReplied)
        => /\ last.response.status_code = 200
           /\ last.response.json.sentiment \in valid_sentiments

\* C1, its case: a multi-line reply whose first line is none of the labels.
C1_Witness ==
    /\ Answered("/analyze/") /\ strip(last.text) # <<>> /\ ModelReplied
    /\ \E i \in DOMAIN last.ollama.body.response : last.ollama.body.response[i] = "\n"
    /\ last.response.status_code = 200
    /\ last.response.json.raw_response \notin valid_sentiments
    /\ title(last.response.json.raw_response) \notin valid_sentiments
    /\ last.response.json.sentiment = Neutral

\* C2: a POST /analyze/ with non-blank text makes the API service send exactly
\* one request to the inference service, also when that request fails.
C2_ExactlyOneInferenceRequest ==
    (Answered("/analyze/") /\ strip(last.text) # <<>>)
        => last.sent = <<generate_request(last.text)>>

\* C2, its case: the one request timed out.
C2_Witness ==
    /\ Answered("/analyze/") /\ strip(last.text) # <<>>
    /\ last.ollama.exc = "Timeout"
    /\ Len(last.sent) = 1
    /\ last.response.status_code = 500

\* C6: GET /health/ always answers 200 with api_status 'healthy', an
\* ollama_status among 'connected', 'error', 'disconnected', and
\* mistral_available true only when ollama_status is 'connected'.
C6_HealthNeverFails ==
    Answered("/health/")
        => /\ last.response.status_code = 200
           /\ last.response.json.api_status = "healthy"
           /\ last.response.json.ollama_status \in {"connected", "error", "disconnected"}
           /\ last.response.json.mistral_available
                  => last.response.json.ollama_status = "connected"

\* C6, its case: the inference service answers 200 with a body without a model
\* list.
C6_Witness ==
    /\ Answered("/health/")
    /\ last.ollama.exc = "none" /\ last.ollama.status_code = 200
    /\ last.ollama.body.kind = "object" /\ ~last.ollama.body.has_models
    /\ last.response.status_code = 200
    /\ last.response.json.ollama_status = "disconnected"
    /\ ~last.response.json.mistral_available

\* C7: a POST /analyze/ with empty or whitespace-only text is answered 400
\* 'Text cannot be empty' and the inference service is not contacted.
C7_BlankTextIs400 ==
    (Answered("/analyze/") /\ strip(last.text) = <<>>)
        => /\ last.response = HTTPException(400, "Text cannot be empty")
           /\ last.sent = <<>>

\* C8: when the inference service answers a POST /analyze/ call with a status
\* other than 200, the API answers 500 'Failed to connect to Ollama service'.
C8_Non200IsFailedToConnect ==
    (Answered("/analyze/") /\ strip(last.text) # <<>>
       /\ last.ollama.exc = "none" /\ last.ollama.status_code # 200)
        => last.response = HTTPException(500, "Failed to connect to Ollama service")

\* The first line of the whitespace-stripped reply, itself stripped: the
\* characters before the first line feed.
FirstLineOfReply ==
    LET reply == strip(last.ollama.body.response)
        n == CHOOSE n \in 0..Len(reply) :
                 /\ \A j \in 1..n : reply[j] # "\n"
                 /\ n = Len(reply) \/ reply[n + 1] = "\n"
    IN  strip(SubSeq(reply, 1, n))

\* C11: the label is decided by the first line of the whitespace-stripped reply
\* alone, in this order: the title-cased line when it is Positive, Negative or
\* Neutral; else Positive when the line contains 'positive' in any case; else
\* Negative when it contains 'negative'; else Neutral.
C11_LabelFromFirstLineInOrder ==
    (Answered("/analyze/") /\ strip(last.text) # <<>> /\ ModelReplied)
        => LET line == FirstLineOfReply
               label == last.response.json.sentiment
           IN  /\ last.response.json.raw_response = strip(last.ollama.body.response)
               /\ label = IF title(line) \in valid_sentiments THEN title(line)
                          ELSE IF contains(positive, lower(line)) THEN Positive
                          ELSE IF contains(negative, lower(line)) THEN Negative
                          ELSE Neutral

\* C11, its case: the first line holds both words, 'negative' first, and is
\* none of the labels; the label is Positive.
C11_Witness ==
    /\ Answered("/analyze/") /\ strip(last.text) # <<>> /\ ModelReplied
    /\ contains(negative \o positive, lower(FirstLineOfReply))
    /\ title(FirstLineOfReply) \notin valid_sentiments
    /\ last.response.json.sentiment = Positive

\* C15: when the request to the inference service raises a connection error or
\* times out, POST /analyze/ answers 500 'Could not connect to Ollama service.
\* Make sure Ollama is running and Mistral model is available.'; every other
\* failure inside the handler is answered 500 with a detail.
C15_FailuresAnswer500 ==
    (Answered("/analyze/") /\ strip(last.text) # <<>>)
        => /\ last.ollama.exc \in {"ConnectionError", "Timeout"}
                  => last.response = HTTPException(500, "Could not connect to Ollama service. Make sure Ollama is running and Mistral model is available.")
           /\ ~ModelReplied
                  => /\ last.response.status_code = 500
                     /\ DOMAIN last.response.json = {"detail"}
           /\ last.response.status_code \in {200, 500}

\* C15, its case: the inference service answers 200 with a JSON object that has
\* no 'response' field.
C15_Witness ==
    /\ Answered("/analyze/") /\ strip(last.text) # <<>>
    /\ last.ollama.exc = "none" /\ last.ollama.status_code = 200
    /\ last.ollama.body.kind = "object" /\ ~last.ollama.body.has_response
    /\ last.response = HTTPException(500, "An unexpected error occurred")

\* The inference service answered the tag listing with a model list.
ModelsListed ==
    /\ last.ollama.exc = "none"
    /\ last.ollama.status_code = 200
    /\ last.ollama.body.kind = "object"
    /\ last.ollama.body.has_models

\* C16: for every model list the tag listing returns, the health check of the
\* API, the requirements check of the launcher and the setup test say the same
\* about the availability of the Mistral model.
C16_SameMistralVerdict ==
    (Answered("/health/") /\ ModelsListed)
        => /\ last.response.json.mistral_available
                  = (any_contains_mistral(last.ollama.body.models) = "True")
           /\ last.response.json.mistral_available = test_ollama_connection(last.ollama)

(***************************************************************************)
(* The claim about the history (specification SpecHistory).                *)
(***************************************************************************)
SameRequestAndReply(e, f) == e.text = f.text /\ e.ollama = f.ollama

C9_PostsAndStyles ==
    /\ \A k \in DOMAIN ui_sent :
           ui_sent[k].method = "POST"
               => /\ ui_view.trigger = "analyze"
                  /\ strip(text_input) # <<>>
                  /\ ui_sent = <<analyze_post(text_input)>>
    /\ (ui_view.trigger = "analyze" /\ strip(text_input) = <<>>)
           => ui_sent = <<>> /\ ui_view.kind = "error"
    /\ (ui_view.trigger = "analyze" /\ ui_view.kind = "result")
           => /\ ui_view.status_code = 200
              /\ ui_view.style = "sentiment-positive" <=> lower(ui_view.sentiment) = positive
              /\ ui_view.style = "sentiment-negative" <=> lower(ui_view.sentiment) = negative
              /\ ui_view.style = "sentiment-neutral"
                     <=> lower(ui_view.sentiment) \notin {positive, negative}

\* C9, its case: a 200 reply without 'sentiment', posted for non-blank text, is
\* rendered in the neutral style.
C9_Witness ==
    /\ ui_view.trigger = "analyze" /\ ui_view.kind = "result"
    /\ ui_sent = <<analyze_post(text_input)>>
    /\ ui_view.sentiment = Unknown
    /\ ui_view.style = "sentiment-neutral"

(***************************************************************************)
(* The claims about the launcher (specification SpecLauncher).             *)
(***************************************************************************)
Spawned == {c \in Services : children[c].state # "none"}
StillRunning == {c \in Services : children[c].state = "running"}

\* C3: whenever run() has returned after a child was spawned, no child is still
\* running.
C3_NoChildRunningAfterReturn ==
    (launcher.returned # "none" /\ Spawned # {}) => StillRunning = {}

\* C3, its case: the readiness wait failed and the backend, which did not exit
\* on the termination request, was killed before run returned.
C3_Witness ==
    /\ launcher.returned = "False"
    /\ launcher.signals = 0
    /\ launcher.wait_for_backend = "False"
    /\ children["backend"].terminate /\ children["backend"].kill
    /\ children["backend"].state = "exited"

\* C4: when a handled signal was delivered, every child the launcher spawned
\* has been stopped by the time the launcher exits.
C4_SignalStopsEveryChild ==
    (launcher.status = "exited" /\ launcher.signals > 0) => StillRunning = {}

\* C5: no child is spawned unless check_requirements returned True; the
\* frontend is spawned only after the backend was spawned, seen alive, and a
\* readiness probe answered 200.
C5_StartupOrder ==
    /\ Spawned # {} => launcher.requirements = "True"
    /\ "frontend" \in Spawned
           => /\ "backend" \in Spawned
              /\ "backend" \in launcher.seen_alive
              /\ launcher.probe_200

\* C5, its case: the frontend is spawned after the backend was seen alive and
\* wait_for_backend returned True.
C5_Witness ==
    /\ "frontend" \in Spawned
    /\ launcher.signals = 0
    /\ "backend" \in launcher.seen_alive
    /\ launcher.wait_for_backend = "True"

\* The run frame is inside the loop of wait_for_backend.
InWaitForBackend ==
    /\ stack # <<>>
    /\ stack[1].pc \in {"wait_for_backend_probe", "wait_for_backend_ready",
                         "wait_for_backend_sleep"}

\* C12: wait_for_backend makes at most 30 probes; no probe follows one that
\* was answered 200, and it returns True only after such a probe; it returns
\* False only after 30 probes none of which was answered 200, a probe that
\* raised or got another status counting as one of them; it is left with one
\* of the two results.
C12_WaitForBackendBounded ==
    [][/\ probes' <= WaitAttempts
       /\ (launcher.probe_200 /\ InWaitForBackend') => probes' = probes
       /\ launcher.wait_for_backend # "none"
              => /\ launcher'.wait_for_backend = launcher.wait_for_backend
                 /\ ~InWaitForBackend'
       /\ (launcher.wait_for_backend = "none" /\ launcher'.wait_for_backend = "True")
              => launcher.probe_200
       /\ (launcher.wait_for_backend = "none" /\ launcher'.wait_for_backend = "False")
              => /\ probes = WaitAttempts
                 /\ ~launcher.probe_200
       /\ (InWaitForBackend /\ ~InWaitForBackend' /\ launcher'.status = "running")
              => launcher'.wait_for_backend # "none"
      ]_vars

\* The statements of stop_services.
StopPcs == {"stop_" \o c \o step : c \in Services, step \in {"", "_wait", "_kill"}}
InStopServices == launcher.status = "running" /\ stack # <<>> /\ Top.pc \in StopPcs

\* The top frame's call of stop_services returns in this step.
StopServicesReturns ==
    /\ InStopServices
    /\ Len(stack') = Len(stack)
    /\ stack'[Len(stack)].pc = Top.ret

\* C13: stop_services treats the two children one after the other and
\* escalates: a child is force-killed only after termination was requested and
\* it outlived the wait, or after the request failed; whatever happened while
\* stopping the backend, when stop_services returns no child it knew of is
\* still running; a child never spawned or already exited is left as it is.
C13_StopServicesEscalates ==
    [][InStopServices
          => \A c \in Services :
                /\ (children'[c].kill /\ ~children[c].kill)
                       => /\ children[c].state = "running"
                          /\ \/ children[c].terminate /\ Top.pc = "stop_" \o c \o "_wait"
                             \/ Top.pc = "stop_" \o c \o "_kill"
                /\ (children'[c].terminate /\ ~children[c].terminate)
                       => Top.pc = "stop_" \o c /\ ~children[c].kill
                /\ children[c].state # "running" => children'[c] = children[c]
                /\ (StopServicesReturns /\ self[Field[c]] # "None")
                       => children'[c].state = "exited"
      ]_vars

\* C13, its case: on Windows, after Ctrl+C, the termination request to the
\* backend failed and it was killed; the frontend was then asked to terminate
\* and the launcher exited with both children gone.
C13_Witness ==
    /\ platform = "Windows"
    /\ launcher.status = "exited"
    /\ launcher.signals = 1
    /\ children["backend"].kill /\ ~children["backend"].terminate
    /\ children["frontend"].terminate
    /\ StillRunning = {}

\* run is in its monitor loop and a child has exited.
ChildDiedWhileMonitoring ==
    /\ launcher.status = "running"
    /\ stack # <<>>
    /\ stack[1].pc = "monitor"
    /\ \E c \in Services : children[c].state = "exited"

\* A child that has exited is never running again.
NeverRestarts ==
    [][\A c \in Services :
          children[c].state = "exited" => children'[c].state = "exited"]_vars

\* C14 as stated: once a child has exited while run is in its monitor loop,
\* run eventually returns with no child left running; no child is restarted.
C14_ChildDeathEndsRun ==
    /\ ChildDiedWhileMonitoring ~> (launcher.returned = "True" /\ StillRunning = {})
    /\ NeverRestarts

\* C14, amended: once a child has exited while run is in its monitor loop,
\* eventually no child is left running and either run has returned or a
\* handled signal has ended the launcher; no child is restarted.
C14_ChildDeathEndsRunOrSignalExits ==
    /\ ChildDiedWhileMonitoring
           ~> /\ StillRunning = {}
              /\ \/ launcher.returned = "True"
                 \/ launcher.status = "exited" /\ launcher.signals > 0
    /\ NeverRestarts

\* C14, its case: without any signal, the frontend died on its own, the
\* backend was then asked to terminate, and run returned.
C14_Witness ==
    /\ launcher.returned = "True"
    /\ launcher.signals = 0
    /\ children["frontend"].state = "exited"
    /\ ~children["frontend"].terminate /\ ~children["frontend"].kill
    /\ children["backend"].terminate
    /\ StillRunning = {}

\* start_backend and start_frontend both returned True, after a successful
\* requirements check and readiness wait.
BothStarted ==
    /\ launcher.requirements = "True"
    /\ launcher.wait_for_backend = "True"
    /\ launcher.seen_alive = Services

\* The requirements check, a start or the readiness wait failed.
StartupFailed ==
    \/ launcher.requirements = "False"
    \/ launcher.wait_for_backend = "False"
    \/ launcher.returned = "False"

\* C17 as stated: the launcher exits with status 0 only if both services were
\* started; after a failed requirements check, start or readiness wait it exits
\* with status 1.
C17_ExitZeroOnlyIfBothStarted ==
    launcher.status = "exited"
        => /\ launcher.exit_code = 0 => BothStarted
           /\ StartupFailed => launcher.exit_code = 1

\* C17, amended: the launcher exits with status 0 only if both services were
\* started or the signal handler ended it; as long as no signal is handled, a
\* failed requirements check, start or readiness wait makes it exit with
\* status 1.
C17_ExitZeroOnlyIfBothStartedOrSignal ==
    launcher.status = "exited"
        => /\ launcher.exit_code \in {0, 1}
           /\ launcher.exit_code = 0
                  => \/ BothStarted /\ launcher.returned = "True"
                     \/ launcher.signals > 0
           /\ (StartupFailed /\ launcher.signals = 0) => launcher.exit_code = 1
           /\ (launcher.signals = 0 /\ ~BothStarted) => launcher.exit_code = 1

\* C17, its case: without any signal, the launcher exits with status 1 after
\* the backend was started and the frontend failed to start.
C17_Witness ==
    /\ launcher.status = "exited"
    /\ launcher.signals = 0
    /\ launcher.wait_for_backend = "True"
    /\ "frontend" \notin launcher.seen_alive
    /\ launcher.exit_code = 1

====
